---------------------------- MODULE Spec2Model ----------------------------
(***************************************************************************)
(* Model of the Telegram video-download bot (src/bot/main.py,              *)
(* src/bot/downloader.py): the format enumerator, the session store kept   *)
(* in bot_data["requests"], the handlers handle_url and on_download_click  *)
(* run as cooperative tasks that are interleaved at their await points,    *)
(* and the temporary directories that download_video_sync allocates.       *)
(***************************************************************************)
EXTENDS Integers, Sequences, FiniteSets, TLC

VARIABLES
    store,      \* bot_data["requests"]: token -> RequestContext
    fs,         \* temporary directories on disk: directory -> set of files
    task,       \* one record of locals (and position) per handler invocation
    keyboards,  \* the buttons shown so far, each with the URL message it answers
    nEvents,    \* number of inbound events dispatched so far
    nDirs,      \* number of directories mkdtemp has created so far
    formats,    \* SpecRows: the info["formats"] list given to the enumerator
    rows,       \* SpecRows: the result of _build_format_rows, once built
    thumbnails, \* SpecThumbs: the info["thumbnails"] list given to _best_thumbnail
    best        \* SpecThumbs: the result of _best_thumbnail, once picked

vars == <<store, fs, task, keyboards, nEvents, nDirs, formats, rows, thumbnails, best>>

(***************************************************************************)
(* Bounds of the model.                                                    *)
(***************************************************************************)
MaxEvents == 3      \* inbound events dispatched in one behaviour
MaxShort == 2       \* length of an arbitrary format list
MaxLadder == 12     \* steps of the longest resolution ladder
MaxThumbs == 2      \* length of a thumbnail candidate list

None == "None"
NotBuilt == [built |-> FALSE, value |-> <<>>]
NotPicked == [picked |-> FALSE, single |-> None, value |-> None]

(***************************************************************************)
(* Format Enumerator (downloader.py).                                      *)
(***************************************************************************)
\* Python values of a stream's "height": an int, a non-int number, or None.
IntVal(n) == [type |-> "int", val |-> n]
FloatVal(n) == [type |-> "float", val |-> n]
NoneVal == [type |-> "NoneType", val |-> 0]

\* isinstance(height, int)
IsInt(v) == v.type = "int"

\* truth value of f.get("vcodec"): None and "" are falsy
Truthy(s) == s \notin {None, ""}

Max(S) == CHOOSE m \in S : \A x \in S : x <= m

\* sorted(heights, reverse=True)
RECURSIVE SortedReverse(_)
SortedReverse(S) ==
    IF S = {} THEN <<>> ELSE <<Max(S)>> \o SortedReverse(S \ {Max(S)})

\* the loop of _collect_heights over info["formats"], accumulating the set
RECURSIVE CollectLoop(_, _)
CollectLoop(fmts, heights) ==
    IF fmts = <<>> THEN heights
    ELSE LET f == Head(fmts)
             next == IF Truthy(f.vcodec) /\ f.vcodec # "none" /\ IsInt(f.height)
                     THEN heights \cup {f.height.val}
                     ELSE heights
         IN CollectLoop(Tail(fmts), next)

\* _collect_heights without the vcodec test of line 42
_collect_heights_any_codec(info) ==
    SortedReverse({info.formats[i].height.val :
                      i \in {j \in 1..Len(info.formats) : IsInt(info.formats[j].height)}})

_collect_heights(info) == SortedReverse(CollectLoop(info.formats, {}))

\* f"bv*[height={h}]+ba/b[height={h}]" and f"{h}p", as the pieces formatted
HeightSelector(h) == <<"bv*[height=", h, "]+ba/b[height=", h, "]">>
HeightLabel(h) == <<h, "p">>
BestSelector == <<"bv*+ba/best">>
BestLabel == <<"best available">>

\* heights taken whole instead of heights[:limit]
SliceAll(s, limit) == s

\* heights[:limit]
Slice(s, limit) == SubSeq(s, 1, IF Len(s) < limit THEN Len(s) ELSE limit)

Limit == 10

_build_format_rows(info, limit) ==
    LET heights == _collect_heights(info)
        top == Slice(heights, limit)
        hrows == [i \in 1..Len(top) |->
                     [selector |-> HeightSelector(top[i]), label |-> HeightLabel(top[i])]]
    IN IF <<"best">> \notin {hrows[i].selector : i \in 1..Len(hrows)}
       THEN Append(hrows, [selector |-> BestSelector, label |-> BestLabel])
       ELSE hrows


(***************************************************************************)
(* Extraction collaborator and extract_video_info_sync (downloader.py).    *)
(* A string the handlers take apart (callback data, token) is a sequence   *)
(* of symbols; a token is one opaque symbol (token_urlsafe yields no "|"). *)
(***************************************************************************)
Urls == {"https://a", "https://b", "https://c"}
TokenNames == <<"tok1", "tok2">>
Tokens == {<<TokenNames[i]>> : i \in 1..Len(TokenNames)}

Video(fmts, thumb) ==
    [type |-> "video", entries |-> <<>>, formats |-> fmts, thumbnail |-> thumb,
     thumbnails |-> <<>>]
Playlist(es) ==
    [type |-> "playlist", entries |-> es, formats |-> <<>>, thumbnail |-> None,
     thumbnails |-> <<>>]
Stream(v, h) == [vcodec |-> v, height |-> h]

\* What ydl.extract_info(url, download=False) returns for each URL of the
\* model when it does not raise: a video, a playlist, an empty playlist.
Site(url) ==
    CASE url = "https://a" ->
           Video(<<Stream("avc1", IntVal(720)), Stream("none", NoneVal),
                   Stream("vp9", IntVal(1080)), Stream("avc1", IntVal(720))>>, "thumb.jpg")
      [] url = "https://b" ->
           Playlist(<<Video(<<Stream("avc1", IntVal(480))>>, None),
                      Video(<<Stream("avc1", IntVal(240))>>, None)>>)
      [] OTHER -> Playlist(<<>>)

\* the RuntimeError of line 87
Failure == [ok |-> FALSE, thumbnail_url |-> None, format_rows |-> <<>>]

\* a candidate of info["thumbnails"]
Thumb(url, height, preference) == [url |-> url, height |-> height, preference |-> preference]

\* v or 0, for v None or an int
OrZero(v) == IF v.type = "NoneType" THEN 0 ELSE v.val

\* (height * 10) + pref of lines 30-32
Score(t) == (OrZero(t.height) * 10) + OrZero(t.preference)

\* the loop of lines 29-35 over thumbs, from best and best_score
RECURSIVE ThumbLoop(_, _, _)
ThumbLoop(thumbs, best_url, best_score) ==
    IF thumbs = <<>> THEN best_url
    ELSE LET t == Head(thumbs)
         IN IF Score(t) > best_score /\ Truthy(t.url)
            THEN ThumbLoop(Tail(thumbs), t.url, Score(t))
            ELSE ThumbLoop(Tail(thumbs), best_url, best_score)

\* _best_thumbnail for a non-empty info: the single 'thumbnail' field
\* first, else the loop over the candidates with best_score = -1
_best_thumbnail(info) ==
    IF Truthy(info.thumbnail) THEN info.thumbnail
    ELSE ThumbLoop(info.thumbnails, None, -1)

\* extract_video_info_sync without the raise of line 87: an empty playlist
\* is enumerated as it is
extract_video_info_sync_keep_empty(raw) ==
    LET info == IF raw.type = "playlist" /\ raw.entries # <<>> THEN raw.entries[1] ELSE raw
    IN [ok |-> TRUE, thumbnail_url |-> _best_thumbnail(info),
        format_rows |-> _build_format_rows(info, Limit)]

\* extract_video_info_sync after ydl.extract_info returned raw
extract_video_info_sync(raw) ==
    IF raw.type = "playlist" /\ raw.entries = <<>> THEN Failure
    ELSE LET info == IF raw.type = "playlist" THEN raw.entries[1] ELSE raw
         IN [ok |-> TRUE, thumbnail_url |-> _best_thumbnail(info),
             format_rows |-> _build_format_rows(info, Limit)]

(***************************************************************************)
(* Callback payload: f"dl|{token}|{idx:x}" and its parsing (main.py).     *)
(***************************************************************************)
HexDigits == <<"0", "1", "2", "3", "4", "5", "6", "7", "8", "9", "a", "b", "c", "d", "e", "f">>
UpperDigits == <<"0", "1", "2", "3", "4", "5", "6", "7", "8", "9", "A", "B", "C", "D", "E", "F">>

\* format(n, "x") for n >= 0
RECURSIVE HexNat(_)
HexNat(n) == IF n < 16 THEN <<HexDigits[n + 1]>> ELSE HexNat(n \div 16) \o <<HexDigits[(n % 16) + 1]>>

\* f"{idx}": the index written in decimal
RECURSIVE DecNat(_)
DecNat(n) == IF n < 10 THEN <<HexDigits[n + 1]>> ELSE DecNat(n \div 10) \o <<HexDigits[(n % 10) + 1]>>
FormatDecimal(n) == IF n < 0 THEN <<"-">> \o DecNat(-n) ELSE DecNat(n)

\* f"{idx:x}"
FormatHex(n) == IF n < 0 THEN <<"-">> \o HexNat(-n) ELSE HexNat(n)

\* cb = f"dl|{token}|{idx:x}"
CallbackData(token, idx) == <<"d", "l", "|">> \o token \o <<"|">> \o FormatHex(idx)

IsHexDigit(c) == \E i \in 1..16 : HexDigits[i] = c \/ UpperDigits[i] = c
DigitValue(c) == (CHOOSE i \in 1..16 : HexDigits[i] = c \/ UpperDigits[i] = c) - 1

RECURSIVE HexValue(_)
HexValue(s) == IF s = <<>> THEN 0 ELSE 16 * HexValue(SubSeq(s, 1, Len(s) - 1)) + DigitValue(s[Len(s)])

\* int(idx_hex, 16): [ok, val]; ok = FALSE stands for ValueError
ParseHex(s) ==
    LET signed == s # <<>> /\ s[1] \in {"-", "+"}
        digits == IF signed THEN Tail(s) ELSE s
    IN IF digits = <<>> \/ \E i \in 1..Len(digits) : ~IsHexDigit(digits[i])
       THEN [ok |-> FALSE, val |-> 0]
       ELSE [ok |-> TRUE, val |-> IF signed /\ s[1] = "-" THEN -HexValue(digits) ELSE HexValue(digits)]

\* data.startswith("dl|")
StartsWithDl(data) == Len(data) >= 3 /\ SubSeq(data, 1, 3) = <<"d", "l", "|">>

Bars(data) == {i \in 1..Len(data) : data[i] = "|"}
Min(S) == CHOOSE m \in S : \A x \in S : m <= x

\* data.split("|", 2)
Split2(data) ==
    IF Bars(data) = {} THEN <<data>>
    ELSE LET b1 == Min(Bars(data))
             rest == Bars(data) \ {b1}
         IN IF rest = {} THEN <<SubSeq(data, 1, b1 - 1), SubSeq(data, b1 + 1, Len(data))>>
            ELSE LET b2 == Min(rest)
                 IN <<SubSeq(data, 1, b1 - 1), SubSeq(data, b1 + 1, b2 - 1),
                      SubSeq(data, b2 + 1, Len(data))>>

\* a parser that takes any three-part payload and reads a bad index as 0
ParseCallbackLenient(data) ==
    LET parts == Split2(data)
    IN IF Len(parts) # 3 THEN [ok |-> FALSE, token |-> <<>>, idx |-> 0]
       ELSE [ok |-> TRUE, token |-> parts[2],
             idx |-> IF ParseHex(parts[3]).ok THEN ParseHex(parts[3]).val ELSE 0]

\* lines 92-99 of on_download_click: [ok, token, idx]; ok = FALSE is a return
ParseCallback(data) ==
    IF ~StartsWithDl(data) THEN [ok |-> FALSE, token |-> <<>>, idx |-> 0]
    ELSE LET parts == Split2(data)
         IN IF Len(parts) # 3 \/ ~ParseHex(parts[3]).ok
            THEN [ok |-> FALSE, token |-> <<>>, idx |-> 0]
            ELSE [ok |-> TRUE, token |-> parts[2], idx |-> ParseHex(parts[3]).val]

(***************************************************************************)
(* Session store (main.py).                                                *)
(***************************************************************************)
\* RequestContext(url=..., selectors=..., labels=...)
RequestContext(url, selectors, labels) == [url |-> url, selectors |-> selectors, labels |-> labels]

\* the value None of store.get(token)
NoneReq == [url |-> None, selectors |-> <<>>, labels |-> <<>>]

\* store.get(token)
Get(st, token) == IF token \in DOMAIN st THEN st[token] ELSE NoneReq

\* labels.get(selector, default)
LabelGet(labels, selector, default) ==
    IF selector \in DOMAIN labels THEN labels[selector] ELSE default

\* [selector for selector, _ in info.format_rows]
Selectors(format_rows) == [i \in 1..Len(format_rows) |-> format_rows[i].selector]

\* {selector: label for selector, label in info.format_rows}: the last row wins
Labels(format_rows) ==
    [s \in {format_rows[i].selector : i \in 1..Len(format_rows)} |->
        format_rows[Max({i \in 1..Len(format_rows) : format_rows[i].selector = s})].label]

\* the session stored with the canonical webpage_url instead of the url sent
StoreSessionCanonicalUrl(st, token, url, format_rows) ==
    [k \in DOMAIN st \cup {token} |->
        IF k = token
        THEN RequestContext("https://canonical", Selectors(format_rows), Labels(format_rows))
        ELSE st[k]]

\* the store replaced by a table holding the new session alone
StoreSessionAlone(st, token, url, format_rows) ==
    [k \in {token} |-> RequestContext(url, Selectors(format_rows), Labels(format_rows))]

\* store[token] = RequestContext(url=url, selectors=selectors, labels=labels)
StoreSession(st, token, url, format_rows) ==
    [k \in DOMAIN st \cup {token} |->
        IF k = token
        THEN RequestContext(url, Selectors(format_rows), Labels(format_rows))
        ELSE st[k]]

\* the buttons handle_url builds for a stored session
Buttons(token, selectors, labels) ==
    [i \in 1..Len(selectors) |->
        [text |-> LabelGet(labels, selectors[i], <<"format", " ", i - 1>>),
         data |-> CallbackData(token, i - 1)]]

(***************************************************************************)
(* Temporary directories (downloader.py, main.py).                         *)
(***************************************************************************)
\* the upload ceiling
max_bot_upload == 49 * 1024 * 1024

Sizes == {0, max_bot_upload, max_bot_upload + 1}
Exts == {"MP4", "webm"}

\* ext.lower()
Lower(ext) == IF ext = "MP4" THEN "mp4" ELSE ext

\* ext.lower() in {"mp4", "mov", "m4v"}
IsVideoExt(ext) == Lower(ext) \in {"mp4", "mov", "m4v"}

\* what download_video_sync can produce after mkdtemp: an exception, or a
\* file of some size whose name is, or is not, the filepath it returns
DownloadResults ==
    {[ok |-> FALSE, size |-> 0, name |-> "out", ext |-> "webm"]} \cup
    [ok : {TRUE}, size : Sizes, name : {"out"}, ext : Exts] \cup
    [ok : {TRUE}, size : {max_bot_upload + 1}, name : {"merged"}, ext : {"MP4"}]

File(name, size) == [name |-> name, size |-> size]

\* os.path.exists(filepath), filepath = temp_dir/out
Exists(f, d) == d \in DOMAIN f /\ \E x \in f[d] : x.name = "out"

\* the size of whatever the download left in the directory
GetSizeOfDownload(f, d) ==
    IF d \in DOMAIN f /\ f[d] # {} THEN (CHOOSE x \in f[d] : TRUE).size ELSE 0

\* os.path.getsize(filepath) with the except OSError of lines 120-123
GetSize(f, d) ==
    IF Exists(f, d) THEN (CHOOSE x \in f[d] : x.name = "out").size ELSE 0

\* os.remove(filepath) with its except OSError: pass
Remove(f, d) ==
    IF d \in DOMAIN f THEN [f EXCEPT ![d] = {x \in f[d] : x.name # "out"}] ELSE f

\* shutil.rmtree(os.path.dirname(filepath), ignore_errors=True)
Rmtree(f, d) == [k \in DOMAIN f \ {d} |-> f[k]]

\* a cleanup that removes the file and leaves its directory
CleanupFileOnly(f, d) == Remove(f, d)

\* the cleanup of lines 135-142 and 155-162
Cleanup(f, d) == Rmtree(Remove(f, d), d)

\* the gate with >= for >
OversizedAtCeiling(size_bytes) == size_bytes # 0 /\ size_bytes >= max_bot_upload

\* size_bytes and size_bytes > max_bot_upload
Oversized(size_bytes) == size_bytes # 0 /\ size_bytes > max_bot_upload

(***************************************************************************)
(* Handler invocations.  The dispatcher starts one task per inbound event; *)
(* a task runs from one await to the next in one step.  pc names the await *)
(* a task is suspended at; "done" is a return, "raised" an exception that  *)
(* left the handler.                                                       *)
(***************************************************************************)
Tasks == {1, 2}

IdleTask ==
    [kind |-> "idle", pc |-> "idle", url |-> None, data |-> <<>>, photo |-> FALSE,
     req |-> NoneReq, token |-> <<>>, idx |-> 0, selector |-> <<>>, label |-> <<>>,
     buttons |-> <<>>, info |-> Failure,
     dir |-> 0, ext |-> None, size_bytes |-> 0, probe |-> None,
     msg |-> None, after |-> None, said |-> {}, uploads |-> 0, downloads |-> 0,
     args |-> <<>>, edit_failed |-> FALSE, new_msg |-> None]

\* A handler that returned or raised has no locals any more: its record
\* keeps the (token, index) of the click it handled and what the invocation
\* did (the calls it made, the directory download_video_sync allocated for
\* it, the size it measured).
Settle(r) ==
    IF r.pc \in {"done", "raised"}
    THEN [IdleTask EXCEPT !.kind = r.kind, !.pc = r.pc, !.token = r.token, !.idx = r.idx,
                          !.dir = r.dir,
                          !.size_bytes = r.size_bytes, !.probe = r.probe,
                          !.said = r.said, !.uploads = r.uploads,
                          !.downloads = r.downloads]
    ELSE r

Finished(t) == task[t].pc \in {"done", "raised"}

\* the dispatcher runs an event's handler in the first slot that is free
Free(t) ==
    /\ task[t].pc = "idle" \/ Finished(t)
    /\ \A u \in Tasks : u < t => ~(task[u].pc = "idle" \/ Finished(u))

\* inbound message texts, as their whitespace-separated words
Texts == {<<"hello">>, <<"https://a">>, <<"see", "https://b", "https://a">>, <<"https://c">>}

\* URL_REGEX.search(text): the first word that is a URL, or None
UrlSearch(text) ==
    LET hits == {i \in 1..Len(text) : text[i] \in Urls}
    IN IF hits = {} THEN None ELSE text[Min(hits)]

\* callback payloads a client can send besides those of the buttons shown
CraftedPayloads ==
    {CallbackData(tok, i) : tok \in Tokens, i \in {-1, 2, 3}} \cup
    {CallbackData(<<"nope">>, 0)} \cup
    { <<"d", "l", "|", "tok1">>, <<"d", "l", "|", "tok1", "|", "z">>,
      <<"x", "|", "tok1", "|", "0">>, <<"d", "l", "|", "tok1", "|">> }

\* query.data and query.message.photo of a click
ClickInputs ==
    {[data |-> k.data, photo |-> k.photo] : k \in keyboards} \cup
    {[data |-> d, photo |-> FALSE] : d \in CraftedPayloads}

Init ==
    /\ store = <<>>
    /\ fs = <<>>
    /\ task = [t \in Tasks |-> IdleTask]
    /\ keyboards = {}
    /\ nEvents = 0
    /\ nDirs = 0
    /\ formats = <<>>
    /\ rows = NotBuilt
    /\ thumbnails = <<>>
    /\ best = NotPicked

Set(t, r) == task' = [task EXCEPT ![t] = Settle(r)]

(************************** handle_url *************************************)
\* lines 50-57: up to the await of send_chat_action
HandleUrl(t, text) ==
    /\ Free(t) /\ nEvents < MaxEvents
    /\ nEvents' = nEvents + 1
    /\ LET url == UrlSearch(text)
       IN IF url = None
          THEN Set(t, [IdleTask EXCEPT !.kind = "handle_url", !.pc = "done"])
          ELSE Set(t, [IdleTask EXCEPT !.kind = "handle_url", !.pc = "typing", !.url = url])
    /\ UNCHANGED <<store, fs, keyboards, formats, rows, nDirs, thumbnails, best>>

\* line 57 completes or raises
Typing(t, ok) ==
    /\ task[t].kind = "handle_url" /\ task[t].pc = "typing"
    /\ Set(t, [task[t] EXCEPT !.pc = IF ok THEN "extract" ELSE "raised"])
    /\ UNCHANGED <<store, fs, keyboards, nEvents, formats, rows, nDirs, thumbnails, best>>

\* lines 61-63: extraction failed, the error text is about to be sent
ExtractFailed(t) ==
    /\ task[t].kind = "handle_url" /\ task[t].pc = "extract"
    /\ Set(t, [task[t] EXCEPT !.pc = "report_error"])
    /\ UNCHANGED <<store, fs, keyboards, nEvents, formats, rows, nDirs, thumbnails, best>>

\* lines 60, 65-81: extraction returned info; token, session and buttons
Extracted(t, info, token) ==
    /\ task[t].kind = "handle_url" /\ task[t].pc = "extract"
    /\ info.ok
    /\ store' = StoreSession(store, token, task[t].url, info.format_rows)
    /\ Set(t, [task[t] EXCEPT !.pc = "reply", !.token = token,
                              !.info = info,
                              !.buttons = Buttons(token, store'[token].selectors,
                                                  store'[token].labels)])
    /\ UNCHANGED <<fs, keyboards, nEvents, formats, rows, nDirs, thumbnails, best>>

\* a token source that repeats itself
NewTokenFixed(st) == <<TokenNames[1]>>

\* secrets.token_urlsafe(8): a token not in use (64 random bits do not
\* collide); tokens are interchangeable and the model takes the first
NewToken(st) == <<TokenNames[Min({i \in 1..Len(TokenNames) : <<TokenNames[i]>> \notin DOMAIN st})]>>

\* line 60: await extract_video_info(url)
Extract(t) ==
    \/ ExtractFailed(t)                      \* ydl.extract_info raised
    \/ /\ task[t].pc = "extract"
       /\ LET info == extract_video_info_sync(Site(task[t].url))
          IN IF info.ok
             THEN Tokens \ DOMAIN store # {} /\ Extracted(t, info, NewToken(store))
             ELSE ExtractFailed(t)

\* line 62 completes or raises
ReportError(t, ok) ==
    /\ task[t].kind = "handle_url" /\ task[t].pc = "report_error"
    /\ Set(t, [task[t] EXCEPT !.pc = IF ok THEN "done" ELSE "raised",
                              !.said = @ \cup {"error"}])
    /\ UNCHANGED <<store, fs, keyboards, nEvents, formats, rows, nDirs, thumbnails, best>>

\* lines 82-85 complete or raise: the keyboard is shown when they complete
Reply(t, ok) ==
    /\ task[t].kind = "handle_url" /\ task[t].pc = "reply"
    /\ Set(t, [task[t] EXCEPT !.pc = IF ok THEN "done" ELSE "raised",
                              !.said = @ \cup {"choices"}])
    /\ keyboards' = IF ok
                    THEN keyboards \cup
                         {[url |-> task[t].url, text |-> task[t].buttons[i].text,
                           data |-> task[t].buttons[i].data,
                           photo |-> Truthy(task[t].info.thumbnail_url)] :
                              i \in 1..Len(task[t].buttons)}
                    ELSE keyboards
    /\ UNCHANGED <<store, fs, nEvents, formats, rows, nDirs, thumbnails, best>>

(************************ on_download_click *******************************)
IndexError == <<"IndexError">>

\* req.selectors[idx], with Python's indexing from the end for negatives
At(selectors, idx) ==
    IF 0 <= idx /\ idx < Len(selectors) THEN selectors[idx + 1]
    ELSE IF -Len(selectors) <= idx /\ idx < 0 THEN selectors[Len(selectors) + idx + 1]
    ELSE IndexError

\* line 103 without its lower bound: not req or not (idx < len(req.selectors))
StaleNoLowerBound(req, idx) == req = NoneReq \/ ~(idx < Len(req.selectors))

\* line 103: not req or not (0 <= idx < len(req.selectors))
Stale(req, idx) == req = NoneReq \/ ~(0 <= idx /\ idx < Len(req.selectors))

\* await _edit_message(query, text), then go on at position after
EditMessageCall(r, text, after) ==
    [r EXCEPT !.pc = "edit", !.msg = text, !.after = after,
              !.edit_failed = FALSE, !.new_msg = None]

\* what is left of the last _edit_message call is dropped at the next await
Returned(r) == [r EXCEPT !.edit_failed = FALSE, !.new_msg = None]

\* lines 88-90: up to the await of query.answer()
OnDownloadClick(t, input) ==
    /\ Free(t) /\ nEvents < MaxEvents
    /\ nEvents' = nEvents + 1
    /\ Set(t, [IdleTask EXCEPT !.kind = "on_download_click", !.pc = "answer",
                               !.data = input.data, !.photo = input.photo])
    /\ UNCHANGED <<store, fs, keyboards, formats, rows, nDirs, thumbnails, best>>

\* lines 92-110 once query.answer() completed
Resolve(r, st) ==
    LET p == ParseCallback(r.data)
        req == Get(st, p.token)
    IN IF ~p.ok THEN [r EXCEPT !.pc = "done"]
       ELSE IF Stale(req, p.idx)
       THEN EditMessageCall([r EXCEPT !.token = p.token, !.idx = p.idx, !.req = req],
                            "stale", "done")
       ELSE IF At(req.selectors, p.idx) = IndexError
       THEN [r EXCEPT !.token = p.token, !.idx = p.idx, !.req = req, !.pc = "raised"]
       ELSE EditMessageCall(
                [r EXCEPT !.token = p.token, !.idx = p.idx, !.req = req,
                          !.selector = At(req.selectors, p.idx),
                          !.label = LabelGet(req.labels, At(req.selectors, p.idx),
                                             <<"requested format">>)],
                "status", "chat_action")

\* line 90 completes or raises
Answer(t, ok) ==
    /\ task[t].kind = "on_download_click" /\ task[t].pc = "answer"
    /\ Set(t, IF ok THEN Resolve(task[t], store) ELSE [task[t] EXCEPT !.pc = "raised"])
    /\ UNCHANGED <<store, fs, keyboards, nEvents, formats, rows, nDirs, thumbnails, best>>

\* an _edit_message whose except clause passes instead of sending
EditMessageNoFallback(t, ok) ==
    /\ task[t].pc = "edit"
    /\ Set(t, [task[t] EXCEPT !.pc = task[t].after, !.edit_failed = ~ok,
                              !.said = @ \cup {task[t].msg}])
    /\ UNCHANGED <<store, fs, keyboards, nEvents, formats, rows, nDirs, thumbnails, best>>

\* _edit_message, lines 39-44: the edit of the caption or of the text
EditMessage(t, ok) ==
    /\ task[t].pc = "edit"
    /\ \/ task[t].photo     \* edit_message_caption
       \/ ~task[t].photo    \* edit_message_text
    /\ Set(t, [task[t] EXCEPT !.pc = IF ok THEN task[t].after ELSE "edit_fallback",
                              !.edit_failed = ~ok,
                              !.said = @ \cup {task[t].msg}])
    /\ UNCHANGED <<store, fs, keyboards, nEvents, formats, rows, nDirs, thumbnails, best>>

\* _edit_message, lines 45-47: msg.reply_text(text) completes or raises
EditFallback(t, ok) ==
    /\ task[t].pc = "edit_fallback"
    /\ Set(t, [task[t] EXCEPT !.pc = IF ok THEN task[t].after ELSE "raised",
                              !.new_msg = task[t].msg])
    /\ UNCHANGED <<store, fs, keyboards, nEvents, formats, rows, nDirs, thumbnails, best>>

\* the arguments download_video is called with whatever was clicked
DownloadArgsBest(r) == <<r.req.url, BestSelector>>

\* line 114: download_video(req.url, selector)
DownloadArgs(r) == <<r.req.url, r.selector>>

\* line 113 completes, or raises into the except of line 115; when it
\* completes download_video is called
ChatAction(t, ok) ==
    /\ task[t].pc = "chat_action"
    /\ Set(t, IF ok THEN [Returned(task[t]) EXCEPT !.pc = "mkdtemp",
                                                    !.args = DownloadArgs(task[t])]
              ELSE EditMessageCall(task[t], "failed", "done"))
    /\ UNCHANGED <<store, fs, keyboards, nEvents, formats, rows, nDirs, thumbnails, best>>

\* tempfile.mkdtemp(prefix="vd_"): a name that no other call gets; the
\* model numbers the directories in the order of their creation
NewDir(n) == n + 1

\* download_video_sync, line 103: the directory is created
Mkdtemp(t) ==
    /\ task[t].pc = "mkdtemp"
    /\ nDirs' = nDirs + 1
    /\ LET d == NewDir(nDirs) IN
       /\ fs' = [k \in DOMAIN fs \cup {d} |-> IF k = d THEN {} ELSE fs[k]]
       /\ Set(t, [task[t] EXCEPT !.pc = "engine", !.dir = d, !.downloads = @ + 1])
    /\ UNCHANGED <<store, keyboards, nEvents, formats, rows, thumbnails, best>>

\* lines 119-152 once download_video returned (filepath, filename, ext):
\* the size probe, the gate, and the open() before the upload call
AfterDownload(r, f, ext) ==
    LET size_bytes == GetSize(f, r.dir)
        r1 == [r EXCEPT !.ext = ext, !.size_bytes = size_bytes,
                        !.probe = IF Exists(f, r.dir) THEN "ok" ELSE "OSError"]
    IN IF Oversized(size_bytes)
       THEN [f |-> f, r |-> EditMessageCall(r1, "oversized", "cleanup")]
       ELSE IF Exists(f, r.dir)
       THEN [f |-> f, r |-> [r1 EXCEPT !.pc = "upload"]]
       ELSE [f |-> Cleanup(f, r.dir), r |-> [r1 EXCEPT !.pc = "raised"]]

\* download_video_sync, lines 108-119, and the return to on_download_click
Engine(t, res) ==
    /\ task[t].pc = "engine"
    /\ IF res.ok
       THEN LET written == [fs EXCEPT ![task[t].dir] = {File(res.name, res.size)}]
                next == AfterDownload(task[t], written, res.ext)
            IN fs' = next.f /\ Set(t, next.r)
       ELSE /\ Set(t, EditMessageCall(task[t], "failed", "done"))
            /\ fs' = fs
    /\ UNCHANGED <<store, keyboards, nEvents, formats, rows, nDirs, thumbnails, best>>

\* lines 134-143: the cleanup after the oversized report
CleanupOversized(t) ==
    /\ task[t].pc = "cleanup"
    /\ fs' = Cleanup(fs, task[t].dir)
    /\ Set(t, [Returned(task[t]) EXCEPT !.pc = "done"])
    /\ UNCHANGED <<store, keyboards, nEvents, formats, rows, nDirs, thumbnails, best>>

\* lines 146-164: reply_video or reply_document completes or raises, then
\* the finally block
Upload(t, ok) ==
    /\ task[t].pc = "upload"
    /\ LET call == IF IsVideoExt(task[t].ext) THEN "reply_video" ELSE "reply_document"
           r1 == [task[t] EXCEPT !.uploads = @ + 1, !.said = @ \cup {call}]
       IN Set(t, IF ok THEN EditMessageCall(r1, "ready", "done")
                 ELSE [r1 EXCEPT !.pc = "raised"])
    /\ fs' = Cleanup(fs, task[t].dir)
    /\ UNCHANGED <<store, keyboards, nEvents, formats, rows, nDirs, thumbnails, best>>

(***************************************************************************)
(* The bot: any interleaving of the handlers' steps.                       *)
(***************************************************************************)
Next ==
    \E t \in Tasks :
        \/ \E text \in Texts : HandleUrl(t, text)
        \/ \E ok \in BOOLEAN : Typing(t, ok)
        \/ Extract(t)
        \/ \E ok \in BOOLEAN : ReportError(t, ok)
        \/ \E ok \in BOOLEAN : Reply(t, ok)
        \/ \E input \in ClickInputs : OnDownloadClick(t, input)
        \/ \E ok \in BOOLEAN : Answer(t, ok)
        \/ \E ok \in BOOLEAN : EditMessage(t, ok)
        \/ \E ok \in BOOLEAN : EditFallback(t, ok)
        \/ \E ok \in BOOLEAN : ChatAction(t, ok)
        \/ Mkdtemp(t)
        \/ \E res \in DownloadResults : Engine(t, res)
        \/ CleanupOversized(t)
        \/ \E ok \in BOOLEAN : Upload(t, ok)

Spec == Init /\ [][Next]_vars

(***************************************************************************)
(* The Format Enumerator on its own: a format list is built, then          *)
(* _build_format_rows is applied to it with its default limit.             *)
(***************************************************************************)
\* stream descriptors of every kind the enumerator tells apart
FormatPool ==
    {Stream(v, h) : v \in {None, "", "none", "avc1"},
                    h \in {NoneVal, FloatVal(720), IntVal(0), IntVal(2), IntVal(2160)}}

\* the streams of a site that offers n resolutions, worst first
Ladder(n) == [i \in 1..n |-> Stream("avc1", IntVal(i))]

AddFormat(f) ==
    /\ rows = NotBuilt /\ Len(formats) < MaxShort
    /\ formats' = Append(formats, f)
    /\ UNCHANGED <<store, fs, task, keyboards, nEvents, rows, nDirs, thumbnails, best>>

AddLadder(n) ==
    /\ rows = NotBuilt /\ Len(formats) <= MaxShort
    /\ formats' = formats \o Ladder(n)
    /\ UNCHANGED <<store, fs, task, keyboards, nEvents, rows, nDirs, thumbnails, best>>

BuildRows ==
    /\ rows = NotBuilt
    /\ rows' = [built |-> TRUE, value |-> _build_format_rows(Video(formats, None), Limit)]
    /\ UNCHANGED <<store, fs, task, keyboards, nEvents, formats, nDirs, thumbnails, best>>

NextRows ==
    \/ \E f \in FormatPool : AddFormat(f)
    \/ \E n \in 1..MaxLadder : AddLadder(n)
    \/ BuildRows

SpecRows == Init /\ [][NextRows]_vars

(***************************************************************************)
(* _best_thumbnail on its own: a candidate list is built, then the         *)
(* function is applied to an info holding it and a single-field value.     *)
(***************************************************************************)
\* candidates with and without a url, a height and a preference
ThumbPool ==
    {Thumb(u, h, p) : u \in {None, "a.jpg", "b.jpg"},
                      h \in {NoneVal, IntVal(0), IntVal(1)},
                      p \in {NoneVal, IntVal(-11), IntVal(-1), IntVal(10)}}

\* values of the single 'thumbnail' field: missing, empty, present
Singles == {None, "", "single.jpg"}

AddThumb(c) ==
    /\ ~best.picked /\ Len(thumbnails) < MaxThumbs
    /\ thumbnails' = Append(thumbnails, c)
    /\ UNCHANGED <<store, fs, task, keyboards, nEvents, nDirs, formats, rows, best>>

PickThumbnail(single) ==
    /\ ~best.picked
    /\ best' = [picked |-> TRUE, single |-> single,
                value |-> _best_thumbnail([Video(<<>>, single) EXCEPT
                                              !.thumbnails = thumbnails])]
    /\ UNCHANGED <<store, fs, task, keyboards, nEvents, nDirs, formats, rows, thumbnails>>

NextThumbs ==
    \/ \E c \in ThumbPool : AddThumb(c)
    \/ \E single \in Singles : PickThumbnail(single)

SpecThumbs == Init /\ [][NextThumbs]_vars

\* the distinct integer heights among the streams whose vcodec is present
\* (neither missing nor empty) and not "none"
VideoHeights ==
    {formats[i].height.val :
        i \in {j \in 1..Len(formats) :
                  /\ formats[j].vcodec \notin {None, "", "none"}
                  /\ formats[j].height.type = "int"}}

RowSelectors == {rows.value[i].selector : i \in 1..Len(rows.value)}

\* C5: the rows are one height-based choice for each of the min(N, 10)
\* largest of the N distinct video heights, in strictly descending order of
\* height, then exactly one fallback choice in last position; the selectors
\* are pairwise distinct; with N = 0 the result is the fallback alone.
C5_RowsEnumerateHeights ==
    rows.built =>
        LET N == Cardinality(VideoHeights)
            k == IF N < 10 THEN N ELSE 10
        IN /\ Len(rows.value) = k + 1
           /\ \A i \in 1..k :
                 \E h \in VideoHeights :
                    /\ Cardinality({g \in VideoHeights : g > h}) = i - 1
                    /\ rows.value[i] = [selector |-> HeightSelector(h), label |-> HeightLabel(h)]
           /\ rows.value[k + 1] = [selector |-> BestSelector, label |-> BestLabel]
           /\ \A i \in 1..k : rows.value[i].selector # BestSelector
           /\ Cardinality(RowSelectors) = Len(rows.value)
           /\ (N = 0 => rows.value = <<[selector |-> BestSelector, label |-> BestLabel]>>)

\* C5 witness: more than ten video heights were enumerated from a list that
\* also holds streams the enumerator must skip
C5_Witness ==
    /\ rows.built
    /\ Cardinality(VideoHeights) > 10
    /\ \E i \in 1..Len(formats) : formats[i].vcodec = "none" /\ formats[i].height.type = "int"

\* C6 as stated: the list of choices has at most 10 entries
C6_AtMostTenRows == rows.built => Len(rows.value) <= 10

\* C6 amended: the list of choices has at most 11 entries, the 10
\* height-based choices of the limit and the fallback
C6_AtMostLimitPlusFallback == rows.built => Len(rows.value) <= Limit + 1

\* C6 witness: ten or more video heights yield eleven rows
C6_Witness == rows.built /\ Cardinality(VideoHeights) >= 10 /\ Len(rows.value) = 11

(***************************************************************************)
(* Properties of the handlers.                                             *)
(***************************************************************************)
Clicks == {t \in Tasks : task[t].kind = "on_download_click"}
UrlTasks == {t \in Tasks : task[t].kind = "handle_url"}

\* every token a callback can carry, stored or not
AnyToken == Tokens \cup {<<"nope">>}

\* the step in which task t, its callback answered, resolves its selection
Resolves(t) ==
    /\ task[t].kind = "on_download_click" /\ task[t].pc = "answer"
    /\ task'[t].pc \notin {"answer", "raised"}

\* the outcome StaleSession: the 'session expired' text and nothing chosen
StaleOutcome(r) ==
    /\ r.pc = "edit" /\ r.msg = "stale" /\ r.after = "done"
    /\ r.selector = <<>> /\ r.dir = 0 /\ r.downloads = 0 /\ r.uploads = 0

\* C1: when a click carrying (token, index) is resolved, an unknown token
\* or an index outside [0, len(selectors)) gives the StaleSession outcome
\* with nothing chosen; otherwise the selector chosen is selectors[index]
\* of the session stored under the token, with that session's url.  A task
\* that said 'session expired' never downloads or uploads anything.
C1_SelectionResolution ==
    /\ [][\A t \in Tasks : \A token \in AnyToken : \A index \in -1..3 :
            (Resolves(t) /\ task[t].data = CallbackData(token, index)) =>
                IF token \notin DOMAIN store
                   \/ index < 0 \/ index >= Len(store[token].selectors)
                THEN StaleOutcome(task'[t])
                ELSE /\ task'[t].pc = "edit" /\ task'[t].msg = "status"
                     /\ task'[t].selector = store[token].selectors[index + 1]
                     /\ task'[t].req.url = store[token].url]_vars
    /\ [](\A t \in Tasks :
            "stale" \in task[t].said =>
                /\ task[t].selector = <<>> /\ task[t].dir = 0
                /\ task[t].downloads = 0 /\ task[t].uploads = 0
                /\ task[t].said = {"stale"})

\* C1 witness: one click was answered StaleSession for index == len of a
\* stored session while another resolved a valid index above 0
C1_Witness ==
    \E t, u \in Clicks :
        /\ task[t].pc = "edit" /\ task[t].msg = "stale"
        /\ task[t].token \in DOMAIN store
        /\ task[t].idx = Len(store[task[t].token].selectors)
        /\ task[u].pc = "edit" /\ task[u].msg = "status" /\ task[u].idx > 0

\* C2 as stated: when the handling of a click has returned or raised, the
\* directory download_video_sync allocated for it no longer exists
C2_NoTempOutlivesCall ==
    \A t \in Clicks :
        (Finished(t) /\ task[t].dir # 0) => task[t].dir \notin DOMAIN fs

\* C3: a click whose downloaded file measures more than the ceiling never
\* makes an upload call, and once it has returned the oversized outcome was
\* reported and the directory is gone; a file of exactly the ceiling is
\* not rejected.
C3_OversizedNeverUploaded ==
    \A t \in Clicks :
        /\ (task[t].probe = "ok" /\ task[t].size_bytes > 49 * 1024 * 1024) =>
              /\ task[t].uploads = 0
              /\ task[t].said \cap {"reply_video", "reply_document"} = {}
              /\ task[t].pc # "upload"
              /\ task[t].pc \notin {"engine", "mkdtemp"} =>
                    ("oversized" \in task[t].said \/ task[t].msg = "oversized")
              /\ task[t].pc = "done" =>
                    ("oversized" \in task[t].said /\ task[t].dir \notin DOMAIN fs)
        /\ (task[t].probe = "ok" /\ task[t].size_bytes = 49 * 1024 * 1024) =>
              /\ "oversized" \notin task[t].said /\ task[t].msg # "oversized"
              /\ task[t].pc = "upload" \/ task[t].uploads = 1

\* C3 witness: an oversized download was reported and the handler returned
C3_Witness ==
    \E t \in Clicks :
        /\ task[t].pc = "done" /\ task[t].probe = "ok"
        /\ task[t].size_bytes = 49 * 1024 * 1024 + 1
        /\ "oversized" \in task[t].said

\* C4: for a download whose file measures at most the ceiling, exactly one
\* upload call is made, reply_video or reply_document and not both, and
\* once it was made (whether it completed or raised) the file and its
\* directory no longer exist.
C4_ExactlyOneUpload ==
    \A t \in Clicks :
        (task[t].probe = "ok" /\ task[t].size_bytes <= 49 * 1024 * 1024) =>
            \/ /\ task[t].pc = "upload" /\ task[t].uploads = 0
               /\ task[t].said \cap {"reply_video", "reply_document"} = {}
            \/ /\ task[t].pc # "upload" /\ task[t].uploads = 1
               /\ Cardinality(task[t].said \cap {"reply_video", "reply_document"}) = 1
               /\ task[t].dir \notin DOMAIN fs

\* C4 witness: the upload call of a file of exactly the ceiling raised
C4_Witness ==
    \E t \in Clicks :
        /\ task[t].pc = "raised" /\ task[t].probe = "ok"
        /\ task[t].size_bytes = 49 * 1024 * 1024
        /\ task[t].uploads = 1 /\ "ready" \notin task[t].said

\* C7: once handle_url has stored a session, looking its token up yields
\* the url submitted and, in the same order, the selectors of the
\* enumerated rows, each with its row's label.
C7_CreateGetRoundTrip ==
    \A t \in UrlTasks :
        task[t].pc = "reply" =>
            LET session == Get(store, task[t].token)
                format_rows == task[t].info.format_rows
            IN /\ session # NoneReq
               /\ session.url = task[t].url
               /\ Len(session.selectors) = Len(format_rows)
               /\ \A i \in 1..Len(format_rows) :
                     /\ session.selectors[i] = format_rows[i].selector
                     /\ format_rows[i].selector \in DOMAIN session.labels
                     /\ session.labels[format_rows[i].selector] = format_rows[i].label

\* C7 witness: a session of three rows was just stored beside an older one
C7_Witness ==
    \E t \in UrlTasks :
        /\ task[t].pc = "reply" /\ Len(task[t].info.format_rows) = 3
        /\ Cardinality(DOMAIN store) = 2

\* C8 as stated: two clicks with the same token and index that both
\* started a download got two different directories, and once both
\* handlings have finished both directories are gone
C8_ConcurrentClicksCleanUp ==
    \A t, u \in Clicks :
        (/\ t # u /\ task[t].token = task[u].token /\ task[t].idx = task[u].idx
         /\ task[t].dir # 0 /\ task[u].dir # 0) =>
            /\ task[t].dir # task[u].dir
            /\ (Finished(t) /\ Finished(u)) =>
                  (task[t].dir \notin DOMAIN fs /\ task[u].dir \notin DOMAIN fs)

\* a session with its url, its selectors and a label for each selector
FullyFormed(req) ==
    /\ req.url \in Urls
    /\ Len(req.selectors) >= 1
    /\ DOMAIN req.labels = {req.selectors[i] : i \in 1..Len(req.selectors)}

\* the payload of every button a keyboard can hold, by token and index
Payloads == [token \in Tokens, i \in 0..(2 * Limit) |-> CallbackData(token, i)]

\* C9: under every interleaving, each button shown carries a token that is
\* still mapped to the session created with it (the url of the message the
\* buttons answer, and at the button's index the selector whose label the
\* button shows), and what a click looked up is either nothing or a fully
\* formed session, the one the store holds under the token.
C9_NoSessionLostOrTorn ==
    /\ \A k \in keyboards :
          \E token \in Tokens : \E i \in 0..Limit :
             /\ k.data = Payloads[token, i]
             /\ token \in DOMAIN store
             /\ store[token].url = k.url
             /\ i < Len(store[token].selectors)
             /\ LabelGet(store[token].labels, store[token].selectors[i + 1], <<>>) = k.text
             /\ Cardinality({b \in keyboards : b.url = k.url /\ b.text = k.text
                                               /\ \E j \in 0..Limit :
                                                     b.data = Payloads[token, j]}) = 1
    /\ \A t \in Clicks :
          (task[t].pc \notin {"answer", "done", "raised"}) =>
              \/ task[t].req = NoneReq
              \/ /\ FullyFormed(task[t].req)
                 /\ task[t].token \in DOMAIN store
                 /\ store[task[t].token] = task[t].req

\* C9 witness: a click holds the session it looked up while another task
\* has just stored a second session
C9_Witness ==
    \E t \in Clicks : \E u \in UrlTasks :
        /\ task[t].pc \notin {"answer", "done", "raised"} /\ task[t].req # NoneReq
        /\ task[u].pc = "reply"
        /\ keyboards # {}

\* the extraction of url fails in the model's sites: an empty playlist
EmptyPlaylist(url) == Site(url).type = "playlist" /\ Site(url).entries = <<>>

\* C10: when extraction fails, handle_url goes on to send the error text,
\* creates no session and shows no buttons; the store and the buttons
\* shown change only in steps of a handle_url task whose extraction
\* succeeded.  An empty playlist always fails.
C10_FailedExtractionCreatesNothing ==
    [][\A t \in Tasks :
          /\ (task[t].kind = "handle_url" /\ task[t].pc = "extract"
              /\ task'[t].pc # "extract") =>
                 IF task'[t].pc = "reply"
                 THEN /\ ~EmptyPlaylist(task[t].url)
                      /\ task'[t].token \in DOMAIN store' \ DOMAIN store
                 ELSE /\ task'[t].pc = "report_error"
                      /\ store' = store /\ keyboards' = keyboards
                      /\ task'[t].buttons = <<>> /\ task'[t].token = <<>>
          /\ (task[t].pc = "report_error" /\ task'[t].pc # "report_error") =>
                 /\ "error" \in task'[t].said /\ "choices" \notin task'[t].said
                 /\ store' = store /\ keyboards' = keyboards
          /\ (task[t].pc # "extract" /\ task[t].pc # "reply") =>
                 (task'[t] # task[t] => (store' = store /\ keyboards' = keyboards))
          /\ (task[t].pc = "reply" /\ task'[t] # task[t]) =>
                 (task[t].info.ok /\ store' = store)
      ]_vars

\* C10 witness: the extraction of an empty playlist has failed, the error
\* is about to be sent, and the store holds a session of an earlier URL
C10_Witness ==
    \E t \in UrlTasks :
        /\ task[t].pc = "report_error" /\ EmptyPlaylist(task[t].url)
        /\ store # <<>>

\* a callback payload that is not a selection: no "dl|" prefix, fewer than
\* three "|"-separated parts, or a third part that is not a hexadecimal number
Unrecognized(data) ==
    \/ Len(data) < 3 \/ SubSeq(data, 1, 3) # <<"d", "l", "|">>
    \/ Len(Split2(data)) < 3
    \/ ~ParseHex(Split2(data)[3]).ok

\* the step leaves everything but the tasks and the event count unchanged
NoEffect ==
    /\ store' = store /\ fs' = fs /\ nDirs' = nDirs /\ keyboards' = keyboards

\* task t of the next state has started nothing and said nothing
Inert(r) ==
    /\ r.said = {} /\ r.dir = 0 /\ r.downloads = 0 /\ r.uploads = 0
    /\ r.pc \notin {"edit", "edit_fallback", "chat_action", "mkdtemp", "engine",
                    "upload", "cleanup"}

\* C11: a text message without a URL is dropped by handle_url at once, and
\* a click whose payload is not a selection is dropped by on_download_click
\* after the callback was answered: each step of such a handling leaves the
\* session store, the directories on disk and the buttons shown unchanged,
\* starts no download and sends no status message.
C11_UnrecognizedEventsIgnored ==
    [][\A t \in Tasks :
          /\ \A text \in Texts :
                (UrlSearch(text) = None /\ HandleUrl(t, text)) =>
                    (NoEffect /\ Inert(task'[t]) /\ task'[t].pc = "done")
          /\ (task'[t].kind = "on_download_click" /\ task'[t].pc = "answer"
              /\ task[t] # task'[t] /\ Unrecognized(task'[t].data)) =>
                    (NoEffect /\ Inert(task'[t]))
          /\ (task[t].kind = "on_download_click" /\ task[t].pc = "answer"
              /\ task[t] # task'[t] /\ Unrecognized(task[t].data)) =>
                    (NoEffect /\ Inert(task'[t]) /\ task'[t].pc \in {"done", "raised"})
      ]_vars

\* C11 witness: with a session in the store, a click whose payload could
\* not be parsed has returned, and so has a message without a URL
C11_Witness ==
    /\ store # <<>>
    /\ \E t \in Clicks : task[t].pc = "done" /\ task[t].token = <<>> /\ task[t].said = {}
    /\ \E u \in UrlTasks : task[u].pc = "done" /\ task[u].said = {}

\* C12 as stated: a click that resolved to a valid choice and went on to
\* its download has, once its handling is over, shown a terminal status
\* (success, download failure or oversized; an upload failure has no
\* message of its own in the code)
C12_TerminalStatusAlwaysShown ==
    \A t \in Clicks :
        (Finished(t) /\ "status" \in task[t].said /\ task[t].downloads >= 1) =>
            task[t].said \cap {"ready", "failed", "oversized"} # {}

\* C13 as stated: whenever the oversized outcome is being reported or was
\* reported, the file and its directory are already gone
C13_CleanupBeforeOversizedReport ==
    \A t \in Clicks :
        (\/ "oversized" \in task[t].said
         \/ task[t].pc \in {"edit", "edit_fallback"} /\ task[t].msg = "oversized") =>
            task[t].dir \notin DOMAIN fs

\* C14: no step removes a token from the store or changes the session
\* stored under it: its url, its selectors in their order and its labels
\* stay what they were when the token was created.
C14_SessionsImmutable ==
    [][\A token \in DOMAIN store :
          /\ token \in DOMAIN store'
          /\ store'[token].url = store[token].url
          /\ store'[token].selectors = store[token].selectors
          /\ store'[token] = store[token]]_vars

\* C14 witness: two sessions are stored and a click on one of them has
\* uploaded its file and returned
C14_Witness ==
    /\ Cardinality(DOMAIN store) = 2
    /\ \E t \in Clicks : task[t].pc = "done" /\ task[t].uploads = 1

\* the click of task t is one on a stored session at an index in range
ValidClick(r) ==
    /\ r.token \in DOMAIN store
    /\ 0 <= r.idx /\ r.idx < Len(store[r.token].selectors)

\* C15: the download engine is called at most once per click, only for a
\* click that resolved to a valid choice and showed the 'downloading'
\* status, and with the url of the session and the selector at the clicked
\* index; a click answered StaleSession never calls it; a download that
\* failed is followed by the failure message and by nothing else.
C15_EngineOnceAfterValidResolution ==
    \A t \in Clicks :
        /\ task[t].downloads <= 1
        /\ task[t].pc \in {"mkdtemp", "engine"} =>
              /\ ValidClick(task[t])
              /\ task[t].args = <<store[task[t].token].url,
                                  store[task[t].token].selectors[task[t].idx + 1]>>
        /\ (task[t].downloads >= 1 \/ task[t].pc = "mkdtemp") =>
              /\ ValidClick(task[t])
              /\ "stale" \notin task[t].said /\ "status" \in task[t].said
        /\ ("stale" \in task[t].said \/ task[t].msg = "stale") =>
              /\ task[t].downloads = 0 /\ task[t].dir = 0 /\ task[t].args = <<>>
              /\ task[t].pc \in {"edit", "edit_fallback", "done", "raised"}
        /\ (task[t].downloads = 1 /\ task[t].probe = None /\ task[t].pc # "engine") =>
              \/ task[t].pc \in {"edit", "edit_fallback"} /\ task[t].msg = "failed"
              \/ Finished(t) /\ "failed" \in task[t].said
        /\ ("failed" \in task[t].said \/ task[t].msg = "failed") =>
              task[t].pc \in {"edit", "edit_fallback", "done", "raised"}

\* C15 witness: a download for a button other than the first failed in the
\* engine, the failure was reported and the handler returned
C15_Witness ==
    \E t \in Clicks :
        /\ task[t].pc = "done" /\ task[t].downloads = 1 /\ task[t].probe = None
        /\ "failed" \in task[t].said /\ task[t].idx > 0

\* C18: an _edit_message call first tries the edit; when the edit fails it
\* goes on to msg.reply_text with the same text, and once it has returned
\* the text was sent as a new message exactly when the edit had failed.
C18_EditFallsBackToNewMessage ==
    /\ [](\A t \in Clicks :
            /\ task[t].pc = "edit" => (~task[t].edit_failed /\ task[t].new_msg = None)
            /\ task[t].pc = "edit_fallback" =>
                  (task[t].edit_failed /\ task[t].new_msg = None /\ task[t].msg # None)
            /\ task[t].pc \in {"chat_action", "cleanup"} =>
                  IF task[t].edit_failed
                  THEN task[t].new_msg = task[t].msg /\ task[t].msg # None
                  ELSE task[t].new_msg = None)
    /\ [][\A t \in Tasks :
            /\ (task[t].pc = "edit" /\ task'[t] # task[t]) =>
                  \/ task'[t].pc = task[t].after \/ Finished(t)'
                  \/ /\ task'[t].pc = "edit_fallback"
                     /\ task'[t].msg = task[t].msg /\ task'[t].after = task[t].after
            /\ (task[t].pc = "edit_fallback" /\ task'[t] # task[t]) =>
                  \/ Finished(t)'
                  \/ task'[t].pc = task[t].after /\ task'[t].new_msg = task[t].msg]_vars

\* C18 witness: the edit of the 'downloading' status failed and the text
\* went out as a new message, while the oversized text of another click
\* was edited in place
C18_Witness ==
    \E t, u \in Clicks :
        /\ task[t].pc = "chat_action" /\ task[t].edit_failed /\ task[t].new_msg = "status"
        /\ task[u].pc = "cleanup" /\ ~task[u].edit_failed /\ task[u].new_msg = None

\* what on_download_click decodes from each of those payloads
Decoded == [token \in Tokens, i \in 0..(2 * Limit) |-> ParseCallback(Payloads[token, i])]

\* the button (data, text) carries the payload of (token, index), which
\* decodes to them; the token is stored, the index is in range and its
\* selector has the label text
ButtonOf(data, text, token, index) ==
    /\ data = Payloads[token, index]
    /\ Decoded[token, index] = [ok |-> TRUE, token |-> token, idx |-> index]
    /\ token \in DOMAIN store
    /\ index < Len(store[token].selectors)
    /\ LabelGet(store[token].labels, store[token].selectors[index + 1], <<>>) = text

\* C16: every payload dl|token|index-in-hex decodes to the same token and
\* index; when handle_url is about to send its buttons, and for every
\* button shown, the session is stored under the button's token and the
\* payload decodes to that token and to the button's index, whose selector
\* has the label the button shows; a click on a button shown is never
\* answered StaleSession and resolves to that selector and label.
C16_PayloadRoundTrip ==
    /\ \A token \in Tokens : \A i \in 0..(2 * Limit) :
          Decoded[token, i] = [ok |-> TRUE, token |-> token, idx |-> i]
    /\ [](/\ \A t \in UrlTasks :
                task[t].pc = "reply" =>
                    \A j \in 1..Len(task[t].buttons) :
                        ButtonOf(task[t].buttons[j].data, task[t].buttons[j].text,
                                 task[t].token, j - 1)
          /\ \A k \in keyboards :
                \E token \in Tokens : \E i \in 0..Limit :
                    ButtonOf(k.data, k.text, token, i))
    /\ [][\A t \in Tasks : \A k \in keyboards :
            (Resolves(t) /\ task[t].data = k.data) =>
                /\ task'[t].pc = "edit" /\ task'[t].msg = "status"
                /\ task'[t].label = k.text
                /\ task'[t].token \in DOMAIN store
                /\ task'[t].selector = store[task'[t].token].selectors[task'[t].idx + 1]
                /\ CallbackData(task'[t].token, task'[t].idx) = k.data]_vars

\* C16 witness: the last button of a three-button keyboard was clicked and
\* resolved to the fallback choice
C16_Witness ==
    \E t \in Clicks : \E k \in keyboards :
        /\ task[t].data = k.data /\ task[t].pc = "edit" /\ task[t].msg = "status"
        /\ task[t].idx = 2 /\ task[t].label = BestLabel /\ k.text = BestLabel

\* C17: when the size of the downloaded file could not be read, the size
\* is taken as 0, the oversized outcome is neither taken nor reported, and
\* the handling went through the upload block, whose finally removed the
\* file and the directory (the open() of that block raised: no upload call
\* was made).
C17_ProbeFailsOpen ==
    \A t \in Clicks :
        task[t].probe = "OSError" =>
            /\ task[t].size_bytes = 0
            /\ "oversized" \notin task[t].said /\ task[t].msg # "oversized"
            /\ task[t].pc = "raised"
            /\ task[t].uploads = 0
            /\ task[t].dir # 0 /\ task[t].dir \notin DOMAIN fs

\* C17 witness: the probe of a file the download left under another name
\* failed, and the directory is gone
C17_Witness ==
    \E t \in Clicks :
        /\ task[t].probe = "OSError" /\ task[t].downloads = 1
        /\ task[t].dir \notin DOMAIN fs /\ nDirs >= 1

\* the candidates that have a url, by position
WithUrl == {i \in 1..Len(thumbnails) : thumbnails[i].url \notin {None, ""}}

\* height*10 + preference of candidate i, a missing one counted as 0
ScoreOf(i) ==
    (IF thumbnails[i].height = NoneVal THEN 0 ELSE thumbnails[i].height.val * 10)
    + (IF thumbnails[i].preference = NoneVal THEN 0 ELSE thumbnails[i].preference.val)

\* C19 as stated: with the single thumbnail field absent, the result is the
\* url of the first candidate, among those that have a url, whose
\* height*10 + preference is the largest, and it is none only when no
\* candidate has a url
C19_BestThumbnailMaximizes ==
    (best.picked /\ best.single \in {None, ""}) =>
        IF WithUrl = {} THEN best.value = None
        ELSE \E i \in WithUrl :
                /\ \A j \in WithUrl : ScoreOf(j) <= ScoreOf(i)
                /\ \A j \in WithUrl : j < i => ScoreOf(j) < ScoreOf(i)
                /\ best.value = thumbnails[i].url

=============================================================================
